---- MODULE Spec2Model ----
(***************************************************************************)
(* Assembler and interpreter of the 32-bit instruction format of           *)
(* script.py: the codec (extract_fields and the packing expression of the  *)
(* assembler), the assembler's parse / save phases and the interpreter's   *)
(* load / execute / save phases, with the module-level memory list, and    *)
(* main, which parses the command line and calls the two in turn.          *)
(***************************************************************************)
EXTENDS Integers, Sequences, FiniteSets, TLC

\* ------------------------------------------------------------------------
\* Program constants
\* ------------------------------------------------------------------------
COMMAND_MASK == 31
REGISTER_MASK == 63
MemSize == 1024
NumRegs == 64
WordBits == 32
WordBytes == 4

\* ------------------------------------------------------------------------
\* Bounds of the model
\* ------------------------------------------------------------------------
\* longest instruction stream fed to the interpreter
MaxWords == 3
\* longest listing fed to the assembler
MaxLines == 2
\* width of the two's complement window in which Python's unbounded integers
\* are computed; every value of the model needs fewer than 36 bits
IntBits == 40

\* ------------------------------------------------------------------------
\* Python integers as two's complement bit vectors (bit 0 least significant,
\* the top bit is the sign and stands for all higher bits)
\* ------------------------------------------------------------------------
BitIdx == 0 .. (IntBits - 1)

Pow2(n) == 2 ^ n

\* the bit vector of a small integer n, -2^30 <= n < 2^30
ToBits(n) == [i \in BitIdx |-> IF i < 30 THEN (n \div Pow2(i)) % 2
                                ELSE IF n < 0 THEN 1 ELSE 0]

RECURSIVE SumBits(_, _, _)
SumBits(b, lo, hi) ==
    IF lo > hi THEN 0 ELSE b[lo] + 2 * SumBits(b, lo + 1, hi)

\* the integer of a bit vector whose bits 30.. all equal its sign
ToInt(b) == SumBits(b, 0, 29) - (IF b[IntBits - 1] = 1 THEN Pow2(30) ELSE 0)

\* x << k
Shl(b, k) == [i \in BitIdx |-> IF i < k THEN 0 ELSE b[i - k]]
\* x >> k (arithmetic, as on Python integers)
Shr(b, k) == [i \in BitIdx |-> IF i + k < IntBits THEN b[i + k] ELSE b[IntBits - 1]]
\* x | y
BitOr(a, b) == [i \in BitIdx |-> IF a[i] = 1 \/ b[i] = 1 THEN 1 ELSE 0]
\* x & y
BitAnd(a, b) == [i \in BitIdx |-> IF a[i] = 1 /\ b[i] = 1 THEN 1 ELSE 0]

IsNegative(b) == b[IntBits - 1] = 1

\* -x: complement and add one
RECURSIVE NegFrom(_, _, _)
NegFrom(b, i, carry) ==
    IF i >= IntBits THEN <<>>
    ELSE LET s == (1 - b[i]) + carry
         IN  <<s % 2>> \o NegFrom(b, i + 1, s \div 2)
Negate(b) == LET s == NegFrom(b, 0, 1) IN [i \in BitIdx |-> s[i + 1]]

\* ------------------------------------------------------------------------
\* struct.pack('I', x) / struct.unpack('I', bytes): 4 bytes, little-endian
\* ------------------------------------------------------------------------
\* 0 <= x <= 4294967295, the range struct.pack('I', .) accepts
Packable(b) == \A i \in BitIdx : i >= WordBits => b[i] = 0

pack(b) == [j \in 1 .. WordBytes |-> SumBits(b, 8 * (j - 1), 8 * (j - 1) + 7)]

unpack(bytes) ==
    [i \in BitIdx |-> IF i < WordBits
                      THEN (bytes[(i \div 8) + 1] \div Pow2(i % 8)) % 2
                      ELSE 0]

\* extract_fields with the register masked by the 5-bit command mask
extract_fields_mask5(instruction) ==
    LET A == ToInt(BitAnd(instruction, ToBits(COMMAND_MASK)))
        B == ToInt(BitAnd(Shr(instruction, 5), ToBits(COMMAND_MASK)))
        C == ToInt(Shr(instruction, 11))
    IN  <<A, B, C>>

\* extract_fields with the operand taken from bit 10 instead of bit 11
extract_fields_shift10(instruction) ==
    LET A == ToInt(BitAnd(instruction, ToBits(COMMAND_MASK)))
        B == ToInt(BitAnd(Shr(instruction, 5), ToBits(REGISTER_MASK)))
        C == ToInt(Shr(instruction, 10))
    IN  <<A, B, C>>

\* ------------------------------------------------------------------------
\* extract_fields: the decoder
\* ------------------------------------------------------------------------
extract_fields(instruction) ==
    LET A == ToInt(BitAnd(instruction, ToBits(COMMAND_MASK)))
        B == ToInt(BitAnd(Shr(instruction, 5), ToBits(REGISTER_MASK)))
        C == ToInt(Shr(instruction, 11))
    IN  <<A, B, C>>

\* the packing expression of the assembler (line 56)
encode(command, operand1, operand2) ==
    BitOr(BitOr(Shl(ToBits(operand2), 11), Shl(ToBits(operand1), 5)),
          ToBits(command))

\* ------------------------------------------------------------------------
\* Text: a token is a sequence of characters, a line the sequence of tokens
\* line.split() returns (empty for a blank line), a listing a sequence of
\* lines
\* ------------------------------------------------------------------------
HexDigits == <<"0", "1", "2", "3", "4", "5", "6", "7",
               "8", "9", "A", "B", "C", "D", "E", "F">>
LowerHexDigits == <<"0", "1", "2", "3", "4", "5", "6", "7",
                    "8", "9", "a", "b", "c", "d", "e", "f">>

\* value of a hexadecimal digit, -1 for any other character
DigitValue(c) ==
    IF \E i \in 1 .. 16 : HexDigits[i] = c
    THEN (CHOOSE i \in 1 .. 16 : HexDigits[i] = c) - 1
    ELSE IF \E i \in 1 .. 16 : LowerHexDigits[i] = c
    THEN (CHOOSE i \in 1 .. 16 : LowerHexDigits[i] = c) - 1
    ELSE -1

RECURSIVE DigitsValue(_)
DigitsValue(s) ==
    IF s = <<>> THEN 0
    ELSE 16 * DigitsValue(SubSeq(s, 1, Len(s) - 1)) + DigitValue(s[Len(s)])

\* int(s, 16) on sign, prefix and digit characters: an optional sign, an
\* optional 0x / 0X, then at least one hexadecimal digit and nothing else;
\* ok = FALSE stands for ValueError
int16(s) ==
    LET signed   == Len(s) > 0 /\ s[1] \in {"+", "-"}
        r1       == IF signed THEN Tail(s) ELSE s
        prefixed == Len(r1) >= 2 /\ r1[1] = "0" /\ r1[2] \in {"x", "X"}
        r2       == IF prefixed THEN SubSeq(r1, 3, Len(r1)) ELSE r1
        ok       == Len(r2) > 0 /\ \A i \in 1 .. Len(r2) : DigitValue(r2[i]) >= 0
        mag      == IF ok THEN DigitsValue(r2) ELSE 0
    IN  [ok |-> ok, val |-> IF signed /\ s[1] = "-" THEN -mag ELSE mag]

\* token[2:]
StripPrefix(token) == SubSeq(token, 3, Len(token))

\* f"{x:0<width>X}" of a Python integer given as a bit vector
Bit(b, i) == IF i < IntBits THEN b[i] ELSE b[IntBits - 1]
Nibble(b, k) == Bit(b, 4 * k) + 2 * Bit(b, 4 * k + 1)
                + 4 * Bit(b, 4 * k + 2) + 8 * Bit(b, 4 * k + 3)
NumNibbles == (IntBits + 3) \div 4
FormatX(b, width) ==
    LET neg    == IsNegative(b)
        m      == IF neg THEN Negate(b) ELSE b
        used   == {k \in 0 .. (NumNibbles - 1) : Nibble(m, k) # 0}
        n      == IF used = {} THEN 1
                  ELSE (CHOOSE k \in used : \A j \in used : j <= k) + 1
        digits == [j \in 1 .. n |-> HexDigits[Nibble(m, n - j) + 1]]
        sign   == IF neg THEN <<"-">> ELSE <<>>
        fill   == width - n - Len(sign)
        zeros  == [j \in 1 .. (IF fill > 0 THEN fill ELSE 0) |-> "0"]
    IN  sign \o zeros \o digits

\* a dict as a function; d[key] = value
Put(d, key, value) ==
    [k \in (DOMAIN d) \cup {key} |-> IF k = key THEN value ELSE d[k]]

\* a file of the file system: missing, or present with its content
NoFile == [exists |-> FALSE, data |-> <<>>]
File(content) == [exists |-> TRUE, data |-> content]

\* ------------------------------------------------------------------------
\* Inputs
\* ------------------------------------------------------------------------
Tok00 == <<"0", "x", "0", "0">>
Tok05 == <<"0", "x", "0", "5">>
Tok06 == <<"0", "x", "0", "6">>
Tok0A == <<"0", "x", "0", "A">>
Tok19 == <<"0", "x", "1", "9">>
Tok1F == <<"0", "x", "1", "F">>
Tok20 == <<"0", "x", "2", "0">>
Tok3F == <<"0", "x", "3", "F">>
Tok40 == <<"0", "x", "4", "0">>
Tok1FFFFF == <<"0", "x", "1", "F", "F", "F", "F", "F">>
Tok200000 == <<"0", "x", "2", "0", "0", "0", "0", "0">>
\* malformed tokens: a non-hexadecimal digit, nothing after the prefix, a
\* token shorter than the prefix, a sign after the prefix (which int accepts)
TokZZ == <<"0", "x", "Z", "Z">>
TokBare == <<"0", "x">>
TokShort == <<"6">>
TokMinus5 == <<"0", "x", "-", "5">>
TokPlus5 == <<"0", "x", "+", "5">>

\* well-formed lines: every field at its least and greatest value, the
\* listing of the specification's example, and one line per oversized field
InRangeLines ==
    {<<a, b, c>> : a \in {Tok06, Tok1F}, b \in {Tok00, Tok3F},
                   c \in {Tok05, Tok1FFFFF}}
    \cup {<<Tok19, Tok00, Tok0A>>}
OversizedLines ==
    {<<Tok20, Tok00, Tok05>>, <<Tok06, Tok40, Tok05>>, <<Tok06, Tok00, Tok200000>>}

ListingLines ==
    InRangeLines \cup OversizedLines
    \cup {<<>>,
          <<Tok06, Tok00>>,
          <<Tok06, Tok00, Tok05, TokZZ>>,
          <<TokZZ, Tok00, Tok05>>,
          <<Tok06, TokBare, Tok05>>,
          <<Tok06, Tok00, TokShort>>,
          <<Tok06, Tok00, TokMinus5>>,
          <<Tok06, Tok00, TokPlus5>>}

SeqsUpTo(S, n) == UNION {[1 .. k -> S] : k \in 0 .. n}

\* the listing file: missing, or any listing of at most MaxLines lines
ListingInputs == {NoFile} \cup {File(l) : l \in SeqsUpTo(ListingLines, MaxLines)}

\* instructions (opcode, register, operand) of the streams fed to the
\* interpreter: the four opcodes and an unrecognised one, operands inside and
\* outside the memory
StreamInstructions ==
    {<<6, 0, 3>>, <<6, 2, 2097151>>, <<8, 0, 3>>, <<10, 2, 3>>, <<25, 2, 3>>,
     <<8, 2, 1024>>, <<25, 0, 1024>>, <<10, 0, 1024>>, <<31, 2, 1024>>}

RECURSIVE BytesOf(_)
BytesOf(p) ==
    IF p = <<>> THEN <<>>
    ELSE pack(encode(p[1][1], p[1][2], p[1][3])) \o BytesOf(Tail(p))

StreamFiles == {BytesOf(p) : p \in SeqsUpTo(StreamInstructions, MaxWords)}
ShortStreamFiles == {BytesOf(p) : p \in SeqsUpTo(StreamInstructions, 1)}
\* files whose length is no multiple of 4: a fragment after 0 or 1 words
Fragments == {<<6>>, <<6, 0>>, <<6, 0, 0>>}
MisalignedFiles == {d \o f : d \in ShortStreamFiles, f \in Fragments}

AcceptedRanges == {<<2, 5>>, <<1023, 1024>>, <<5, 2>>, <<0, 0>>}
RejectedRanges == {<<1020, 2000>>, <<1024, 1024>>, <<-1, 5>>, <<0, 1025>>, <<0, -1>>}

\* the calls of interpreter(binary_input, start_address, end_address, .):
\* every stream with the range [2, 5), the short and the misaligned files
\* and a missing file with every range
InterpreterCalls ==
    {<<File(d), <<2, 5>>>> : d \in StreamFiles}
    \cup ({File(d) : d \in ShortStreamFiles \cup MisalignedFiles} \cup {NoFile})
         \X (AcceptedRanges \cup RejectedRanges)

\* ------------------------------------------------------------------------
\* State
\* ------------------------------------------------------------------------
VARIABLES
    pc,             \* where the process is: idle, asm_parse, asm_log, asm_done,
                    \* asm_error, exec, done, error
    err,            \* the exception that ended the operation, "none" if none
    err_line,       \* the line number the exception's message cites, 0 if none
    lines,          \* assembler: the lines read from input_file
    line_num,       \* assembler: lines consumed by the parse loop
    instructions,   \* the list `instructions` of the running function
    log,            \* assembler: the dict `log`
    binary_file,    \* the file at binary_output
    log_file,       \* the file at log_output
    binary_input,   \* interpreter: the file at binary_input
    start_address,
    end_address,
    register,       \* interpreter: the list `register`
    memory,         \* the module-level list `memory`
    result,         \* interpreter: the dict `result`
    ip,             \* interpreter: position of the execute loop, 1-based
    result_file,    \* the file at result_output
    args,           \* main: the namespace parse_args returned
    phase,          \* main: not_started, assemble, execute, report, exit,
                    \* crashed
    usage,          \* main: the "No valid arguments" message was printed
    word,           \* codec: the word given to extract_fields
    fields,         \* codec: the tuple extract_fields returned
    repacked        \* codec: the packing expression applied to that tuple

vars == <<pc, err, err_line, lines, line_num, instructions, log, binary_file,
          log_file, binary_input, start_address, end_address, register,
          memory, result, ip, result_file, args, phase, usage, word, fields,
          repacked>>

main_vars == <<args, phase, usage>>
codec_vars == <<word, fields, repacked>>
asm_vars == <<lines, line_num, log, binary_file, log_file>>
vm_vars == <<binary_input, start_address, end_address, register, memory,
             result, ip, result_file>>

\* an absent command-line argument is None, a given one Some(value)
None == <<>>
Some(v) == <<v>>
NoArgs == [input |-> None, binary |-> None, log |-> None,
           start_address |-> None, end_address |-> None,
           binary_input |-> None, result |-> None]

ZeroRegisters == [i \in 0 .. (NumRegs - 1) |-> 0]
ZeroMemory == [i \in 0 .. (MemSize - 1) |-> 0]

Init ==
    /\ pc = "idle"
    /\ err = "none"
    /\ err_line = 0
    /\ lines = <<>>
    /\ line_num = 0
    /\ instructions = <<>>
    /\ log = <<>>
    /\ binary_file = NoFile
    /\ log_file = NoFile
    /\ binary_input = NoFile
    /\ start_address = 0
    /\ end_address = 0
    /\ register = ZeroRegisters
    /\ memory = ZeroMemory
    /\ result = <<>>
    /\ ip = 0
    /\ result_file = NoFile
    /\ args = NoArgs
    /\ phase = "not_started"
    /\ usage = FALSE
    /\ word = ToBits(0)
    /\ fields = <<>>
    /\ repacked = ToBits(0)

\* an exception leaves the running function
Raise(where, e, line) ==
    /\ pc' = where
    /\ err' = e
    /\ err_line' = line

\* ------------------------------------------------------------------------
\* assembler(input_file, binary_output, log_output)
\* ------------------------------------------------------------------------
\* lines 29-39: open and read the listing, the file at input_file being one
\* of inputs
AssemblerStartOn(inputs) ==
    /\ pc = "idle"
    /\ \E f \in inputs :
        IF f.exists
        THEN /\ lines' = f.data
             /\ pc' = "asm_parse"
             /\ UNCHANGED <<err, err_line>>
        ELSE /\ Raise("asm_error", "FileNotFoundError", 0)
             /\ UNCHANGED lines
    /\ line_num' = 0
    /\ instructions' = <<>>
    /\ log' = <<>>
    /\ UNCHANGED <<binary_file, log_file>>
    /\ UNCHANGED vm_vars
    /\ UNCHANGED <<main_vars, codec_vars>>

AssemblerStart == AssemblerStartOn(ListingInputs)

\* the three integers of a line of at least 3 tokens
ParsedFields(line) ==
    [i \in 1 .. 3 |-> int16(StripPrefix(line[i]))]

\* the parse loop keying the log by the number of the word instead of the
\* number of the line
AssembleLine_keyed_by_word ==
    /\ pc = "asm_parse"
    /\ line_num < Len(lines)
    /\ LET line == lines[line_num + 1]
           n    == line_num + 1
       IN  IF line = <<>>
           THEN /\ line_num' = n
                /\ UNCHANGED <<pc, err, err_line, instructions, log>>
           ELSE IF Len(line) < 3
           THEN /\ Raise("asm_error", "ValueError: Invalid instruction format", n)
                /\ UNCHANGED <<line_num, instructions, log>>
           ELSE IF \E i \in 1 .. 3 : ~ParsedFields(line)[i].ok
           THEN /\ Raise("asm_error", "ValueError: Invalid hex value", n)
                /\ UNCHANGED <<line_num, instructions, log>>
           ELSE LET p           == ParsedFields(line)
                    instruction == encode(p[1].val, p[2].val, p[3].val)
                IN  /\ instructions' = Append(instructions, instruction)
                    /\ log' = Put(log, <<"line", Len(instructions) + 1>>,
                                  <<"0", "x">> \o FormatX(instruction, 8))
                    /\ line_num' = n
                    /\ UNCHANGED <<pc, err, err_line>>
    /\ UNCHANGED <<lines, binary_file, log_file>>
    /\ UNCHANGED vm_vars
    /\ UNCHANGED <<main_vars, codec_vars>>

\* lines 42-59: one iteration of the parse loop
AssembleLine ==
    /\ pc = "asm_parse"
    /\ line_num < Len(lines)
    /\ LET line == lines[line_num + 1]
           n    == line_num + 1
       IN  IF line = <<>>
           THEN /\ line_num' = n
                /\ UNCHANGED <<pc, err, err_line, instructions, log>>
           ELSE IF Len(line) < 3
           THEN /\ Raise("asm_error", "ValueError: Invalid instruction format", n)
                /\ UNCHANGED <<line_num, instructions, log>>
           ELSE IF \E i \in 1 .. 3 : ~ParsedFields(line)[i].ok
           THEN /\ Raise("asm_error", "ValueError: Invalid hex value", n)
                /\ UNCHANGED <<line_num, instructions, log>>
           ELSE LET p           == ParsedFields(line)
                    instruction == encode(p[1].val, p[2].val, p[3].val)
                IN  /\ instructions' = Append(instructions, instruction)
                    /\ log' = Put(log, <<"line", n>>,
                                  <<"0", "x">> \o FormatX(instruction, 8))
                    /\ line_num' = n
                    /\ UNCHANGED <<pc, err, err_line>>
    /\ UNCHANGED <<lines, binary_file, log_file>>
    /\ UNCHANGED vm_vars
    /\ UNCHANGED <<main_vars, codec_vars>>

\* the bytes the write loop has put into the file when it stops: the words
\* before the first one struct.pack rejects
RECURSIVE PackedPrefix(_)
PackedPrefix(words) ==
    IF words = <<>> \/ ~Packable(words[1]) THEN <<>>
    ELSE pack(words[1]) \o PackedPrefix(Tail(words))

\* lines 62-65: open binary_output for writing and write every word; the
\* with statement closes the file when struct.pack raises
WriteBinary ==
    /\ pc = "asm_parse"
    /\ line_num = Len(lines)
    /\ binary_file' = File(PackedPrefix(instructions))
    /\ IF \A k \in 1 .. Len(instructions) : Packable(instructions[k])
       THEN /\ pc' = "asm_log"
            /\ UNCHANGED <<err, err_line>>
       ELSE Raise("asm_error", "struct.error", 0)
    /\ UNCHANGED <<lines, line_num, instructions, log, log_file>>
    /\ UNCHANGED vm_vars
    /\ UNCHANGED <<main_vars, codec_vars>>

\* lines 68-70: dump the log
WriteLog ==
    /\ pc = "asm_log"
    /\ log_file' = File(log)
    /\ pc' = "asm_done"
    /\ UNCHANGED <<err, err_line, lines, line_num, instructions, log, binary_file>>
    /\ UNCHANGED vm_vars
    /\ UNCHANGED <<main_vars, codec_vars>>

NextAsm == AssemblerStart \/ AssembleLine \/ WriteBinary \/ WriteLog

SpecAsm == Init /\ [][NextAsm]_vars

\* ------------------------------------------------------------------------
\* interpreter(binary_input, start_address, end_address, result_output)
\* ------------------------------------------------------------------------
\* the range check rejecting only when both addresses are out of range
RangeAccepted_either(start, end) ==
    (0 <= start /\ start < MemSize) \/ (0 <= end /\ end <= MemSize)

\* the range check also requiring start_address < end_address
RangeAccepted_ordered(start, end) ==
    (0 <= start /\ start < MemSize) /\ (0 <= end /\ end <= MemSize)
    /\ start < end

\* line 80: the condition under which the range is accepted
RangeAccepted(start, end) ==
    (0 <= start /\ start < MemSize) /\ (0 <= end /\ end <= MemSize)

\* an unpacking that drops a trailing fragment instead of raising
Unpackable_truncating(data) == TRUE

\* line 95: the words of the byte string, 4 bytes each from offset 0;
\* struct.unpack raises on a last slice of fewer than 4 bytes
Unpackable(data) == Len(data) % WordBytes = 0

UnpackAll(data) ==
    [k \in 1 .. (Len(data) \div WordBytes) |->
        unpack(SubSeq(data, WordBytes * (k - 1) + 1, WordBytes * k))]

\* lines 78-96: check the range, allocate the registers, read and unpack
\* the binary file, the call being one of calls
InterpreterStartOn(calls) ==
    /\ pc = "idle"
    /\ \E c \in calls :
        LET f     == c[1]
            start == c[2][1]
            end   == c[2][2]
        IN  /\ binary_input' = f
            /\ start_address' = start
            /\ end_address' = end
            /\ IF ~RangeAccepted(start, end)
               THEN /\ Raise("error", "ValueError: Addresses must be in range", 0)
                    /\ UNCHANGED <<register, result, instructions, ip>>
               ELSE /\ register' = ZeroRegisters
                    /\ result' = <<>>
                    /\ IF ~f.exists
                       THEN /\ Raise("error", "FileNotFoundError", 0)
                            /\ UNCHANGED <<instructions, ip>>
                       ELSE IF f.data = <<>>
                       THEN /\ Raise("error", "ValueError: Binary file is empty!", 0)
                            /\ UNCHANGED <<instructions, ip>>
                       ELSE IF ~Unpackable(f.data)
                       THEN /\ Raise("error", "struct.error", 0)
                            /\ UNCHANGED <<instructions, ip>>
                       ELSE /\ instructions' = UnpackAll(f.data)
                            /\ ip' = 1
                            /\ pc' = "exec"
                            /\ UNCHANGED <<err, err_line>>
    /\ UNCHANGED <<memory, result_file>>
    /\ UNCHANGED asm_vars
    /\ UNCHANGED <<main_vars, codec_vars>>

InterpreterStart == InterpreterStartOn(InterpreterCalls)

\* memory[C] raises IndexError: C outside the list (a Python index may be
\* negative down to -len)
IndexError(C) == C >= MemSize \/ C < -MemSize
Cell(C) == IF C < 0 THEN C + MemSize ELSE C

\* the write branch left out of the branches that fault
AccessesMemory_no_write(A) == A \in {8, 10}

\* every opcode but 6 treated as a memory access
AccessesMemory_not6(A) == A # 6

\* lines 102-113: the branches that index memory
AccessesMemory(A) == A \in {8, 25, 10}

\* opcode 10 without the minus sign
ExecRegister_no_negate(A, B, C, reg, mem) ==
    IF A = 6 THEN [reg EXCEPT ![B] = C]
    ELSE IF A = 8 THEN [reg EXCEPT ![B] = mem[Cell(C)]]
    ELSE IF A = 25 THEN reg
    ELSE IF A = 10 THEN [reg EXCEPT ![B] = mem[Cell(C)]]
    ELSE reg

\* opcode 25 as a move: the register is cleared after the write
ExecRegister_write_moves(A, B, C, reg, mem) ==
    IF A = 6 THEN [reg EXCEPT ![B] = C]
    ELSE IF A = 8 THEN [reg EXCEPT ![B] = mem[Cell(C)]]
    ELSE IF A = 25 THEN [reg EXCEPT ![B] = 0]
    ELSE IF A = 10 THEN [reg EXCEPT ![B] = -mem[Cell(C)]]
    ELSE reg

\* lines 102-113: the register list after the instruction
ExecRegister(A, B, C, reg, mem) ==
    IF A = 6 THEN [reg EXCEPT ![B] = C]
    ELSE IF A = 8 THEN [reg EXCEPT ![B] = mem[Cell(C)]]
    ELSE IF A = 25 THEN reg
    ELSE IF A = 10 THEN [reg EXCEPT ![B] = -mem[Cell(C)]]
    ELSE reg

\* lines 102-113: the memory list after the instruction
ExecMemory(A, B, C, reg, mem) ==
    IF A = 25 THEN [mem EXCEPT ![Cell(C)] = reg[B]] ELSE mem

\* line 115: the key under which register B is recorded
RegisterKey(B) == <<"register", B>>

\* a snapshot that keeps the first value recorded for a register
Record_first_wins(res, B, reg) ==
    IF <<"register", B>> \in DOMAIN res THEN res
    ELSE Put(res, <<"register", B>>, reg[B])

\* line 115: the snapshot after the instruction, given the registers after it
Record(res, B, reg) == Put(res, RegisterKey(B), reg[B])

\* an execute loop that advances the pointer by two
Execute_skipping ==
    /\ pc = "exec"
    /\ ip <= Len(instructions)
    /\ LET f == extract_fields(instructions[ip])
           A == f[1]
           B == f[2]
           C == f[3]
       IN  IF AccessesMemory(A) /\ IndexError(C)
           THEN /\ Raise("error", "IndexError", 0)
                /\ UNCHANGED <<register, memory, result, ip>>
           ELSE /\ register' = ExecRegister(A, B, C, register, memory)
                /\ memory' = ExecMemory(A, B, C, register, memory)
                /\ result' = Record(result, B, register')
                /\ ip' = ip + 2
                /\ UNCHANGED <<pc, err, err_line>>
    /\ UNCHANGED <<binary_input, start_address, end_address, instructions,
                   result_file>>
    /\ UNCHANGED asm_vars
    /\ UNCHANGED <<main_vars, codec_vars>>

\* lines 99-115: one iteration of the execute loop
Execute ==
    /\ pc = "exec"
    /\ ip <= Len(instructions)
    /\ LET f == extract_fields(instructions[ip])
           A == f[1]
           B == f[2]
           C == f[3]
       IN  IF AccessesMemory(A) /\ IndexError(C)
           THEN /\ Raise("error", "IndexError", 0)
                /\ UNCHANGED <<register, memory, result, ip>>
           ELSE /\ register' = ExecRegister(A, B, C, register, memory)
                /\ memory' = ExecMemory(A, B, C, register, memory)
                /\ result' = Record(result, B, register')
                /\ ip' = ip + 1
                /\ UNCHANGED <<pc, err, err_line>>
    /\ UNCHANGED <<binary_input, start_address, end_address, instructions,
                   result_file>>
    /\ UNCHANGED asm_vars
    /\ UNCHANGED <<main_vars, codec_vars>>

\* line 118: the key of address addr, f"0x{addr:04X}"
AddressKey(addr) == <<"0", "x">> \o FormatX(ToBits(addr), 4)

\* the dict over range(start_address, end_address - 1)
MemoryDump_short(start, end, mem) ==
    LET addrs == {a \in start .. (end - 2) : TRUE}
    IN  [k \in {AddressKey(a) : a \in addrs} |->
            mem[CHOOSE a \in addrs : AddressKey(a) = k]]

\* line 118: the dict over range(start_address, end_address)
MemoryDump(start, end, mem) ==
    LET addrs == {a \in start .. (end - 1) : TRUE}
    IN  [k \in {AddressKey(a) : a \in addrs} |->
            mem[CHOOSE a \in addrs : AddressKey(a) = k]]

\* lines 118-124: after the loop, add the memory dump and write the result
SaveResult ==
    /\ pc = "exec"
    /\ ip > Len(instructions)
    /\ result' = Put(result, <<"memory">>,
                     MemoryDump(start_address, end_address, memory))
    /\ result_file' = File(result')
    /\ pc' = "done"
    /\ UNCHANGED <<err, err_line, binary_input, start_address, end_address,
                   instructions, register, memory, ip>>
    /\ UNCHANGED asm_vars
    /\ UNCHANGED <<main_vars, codec_vars>>

\* the call is over (returned or raised): its locals are gone, the module's
\* memory list stays; the next call is given another result_output path, at
\* which no file exists yet
Return ==
    /\ pc \in {"done", "error"}
    /\ pc' = "idle"
    /\ err' = "none"
    /\ err_line' = 0
    /\ binary_input' = NoFile
    /\ start_address' = 0
    /\ end_address' = 0
    /\ instructions' = <<>>
    /\ register' = ZeroRegisters
    /\ result' = <<>>
    /\ ip' = 0
    /\ result_file' = NoFile
    /\ UNCHANGED memory
    /\ UNCHANGED asm_vars
    /\ UNCHANGED <<main_vars, codec_vars>>

Next == InterpreterStart \/ Execute \/ SaveResult \/ Return

Spec == Init /\ [][Next]_vars

\* the runs whose termination is checked: every stream of a load, a write,
\* a negation and a read out of bounds, and a missing file
LiveInstructions ==
    {<<6, 2, 2097151>>, <<25, 2, 3>>, <<10, 2, 3>>, <<8, 2, 1024>>}
LiveCalls ==
    {<<File(BytesOf(p)), <<2, 5>>>> : p \in SeqsUpTo(LiveInstructions, MaxWords)}
    \cup {<<NoFile, <<2, 5>>>>}

NextLive == InterpreterStartOn(LiveCalls) \/ Execute \/ SaveResult \/ Return

\* the interpreter's loop and the statements after it run to completion:
\* nothing in lines 99-124 waits
SpecLive ==
    Init /\ [][NextLive]_vars /\ WF_vars(Execute) /\ WF_vars(SaveResult)

\* ------------------------------------------------------------------------
\* main(): parse the command line, run the assembler, run the interpreter,
\* report a command line that names nothing
\* ------------------------------------------------------------------------
\* the values of a string option: absent, the empty string, a path
OptionValues(paths) == {None, Some("")} \cup {Some(p) : p \in paths}

\* line 135: the namespaces parse_args can return
MainArgs ==
    [input         : OptionValues({"prog.asm"}),
     binary        : OptionValues({"prog.bin"}),
     log           : OptionValues({"log.yaml"}),
     start_address : {None, Some(0), Some(5)},
     end_address   : {None, Some(0), Some(2), Some(2000)},
     binary_input  : OptionValues({"prog.bin", "other.bin"}),
     result        : OptionValues({"result.yaml"})]

\* truth value of an option in an `if`: None and "" are false
Truthy(a) == a # None /\ a[1] # ""

\* line 139: the condition of the assembler step
AssembleTriggered(a) == Truthy(a.input) /\ Truthy(a.binary) /\ Truthy(a.log)

\* line 144: the condition of the interpreter step
ExecuteTriggered(a) ==
    /\ Truthy(a.binary_input)
    /\ a.start_address # None
    /\ a.end_address # None
    /\ Truthy(a.result)

\* line 149: any([...]) over the five string options
AnyGiven(a) ==
    \/ Truthy(a.input) \/ Truthy(a.binary) \/ Truthy(a.log)
    \/ Truthy(a.binary_input) \/ Truthy(a.result)

\* the listing at "prog.asm": missing, empty, the example of the
\* specification after a blank line, a listing whose second word does not
\* fit 32 bits, a listing with a malformed line
MainListings ==
    {NoFile,
     File(<<>>),
     File(<<<<>>, <<Tok19, Tok00, Tok0A>>>>),
     File(<<<<Tok06, Tok00, Tok05>>, <<Tok06, Tok00, Tok200000>>>>),
     File(<<<<Tok06, Tok00, Tok05>>, <<Tok06, Tok00>>>>)}

\* the file at "other.bin": missing, a stream that completes, a stream that
\* faults, a misaligned file
OtherBinaryFiles ==
    {NoFile,
     File(BytesOf(<<<<6, 2, 2097151>>, <<25, 2, 3>>>>)),
     File(BytesOf(<<<<8, 2, 1024>>>>)),
     File(<<6, 0>>)}

\* the file the interpreter step opens: the assembler's output path or the
\* other path
MainCalls ==
    {<<f, <<args.start_address[1], args.end_address[1]>>>> :
        f \in IF args.binary_input = Some("prog.bin")
              THEN {binary_file} ELSE OtherBinaryFiles}

\* line 135: args = parser.parse_args()
ParseArgs ==
    /\ phase = "not_started"
    /\ args' \in MainArgs
    /\ phase' = "assemble"
    /\ UNCHANGED <<usage, codec_vars>>
    /\ UNCHANGED <<pc, err, err_line, instructions>>
    /\ UNCHANGED <<asm_vars, vm_vars>>

\* line 139 false: the assembler step is skipped
SkipAssemble ==
    /\ phase = "assemble"
    /\ ~AssembleTriggered(args)
    /\ phase' = "execute"
    /\ UNCHANGED <<args, usage, codec_vars>>
    /\ UNCHANGED <<pc, err, err_line, instructions>>
    /\ UNCHANGED <<asm_vars, vm_vars>>

\* lines 139-141: the call assembler(args.input, args.binary, args.log)
RunAssembler ==
    /\ phase = "assemble"
    /\ AssembleTriggered(args)
    /\ \/ AssemblerStartOn(MainListings)
       \/ AssembleLine
       \/ WriteBinary
       \/ WriteLog

\* where main goes on when the assembler call is over: to line 144 when it
\* returned and, when it raised, also to line 144
AfterAssembler_swallowing(outcome) == "execute"

\* where main goes on when the assembler call is over: to line 144 when it
\* returned, out of main with the exception when it raised
AfterAssembler(outcome) ==
    IF outcome = "asm_done" THEN "execute" ELSE "crashed"

\* line 141: the assembler call returns or raises; its locals are gone
AssemblerOver ==
    /\ phase = "assemble"
    /\ pc \in {"asm_done", "asm_error"}
    /\ phase' = AfterAssembler(pc)
    /\ pc' = "idle"
    /\ lines' = <<>>
    /\ line_num' = 0
    /\ instructions' = <<>>
    /\ log' = <<>>
    /\ UNCHANGED <<err, err_line, binary_file, log_file>>
    /\ UNCHANGED <<args, usage, codec_vars>>
    /\ UNCHANGED vm_vars

\* line 144 false: the interpreter step is skipped
SkipExecute ==
    /\ phase = "execute"
    /\ ~ExecuteTriggered(args)
    /\ phase' = "report"
    /\ UNCHANGED <<args, usage, codec_vars>>
    /\ UNCHANGED <<pc, err, err_line, instructions>>
    /\ UNCHANGED <<asm_vars, vm_vars>>

\* lines 144-146: the call interpreter(args.binary_input,
\* args.start_address, args.end_address, args.result)
RunInterpreter ==
    /\ phase = "execute"
    /\ ExecuteTriggered(args)
    /\ \/ InterpreterStartOn(MainCalls)
       \/ Execute
       \/ SaveResult

\* line 146: the interpreter call returns or raises
InterpreterOver ==
    /\ phase = "execute"
    /\ pc \in {"done", "error"}
    /\ phase' = IF pc = "done" THEN "report" ELSE "crashed"
    /\ UNCHANGED <<args, usage, codec_vars>>
    /\ UNCHANGED <<pc, err, err_line, instructions>>
    /\ UNCHANGED <<asm_vars, vm_vars>>

\* lines 149-150: the message for a command line naming none of the five
\* string options
Report ==
    /\ phase = "report"
    /\ usage' = ~AnyGiven(args)
    /\ phase' = "exit"
    /\ UNCHANGED <<args, codec_vars>>
    /\ UNCHANGED <<pc, err, err_line, instructions>>
    /\ UNCHANGED <<asm_vars, vm_vars>>

NextMain ==
    \/ ParseArgs
    \/ SkipAssemble
    \/ RunAssembler
    \/ AssemblerOver
    \/ SkipExecute
    \/ RunInterpreter
    \/ InterpreterOver
    \/ Report

SpecMain == Init /\ [][NextMain]_vars

\* ------------------------------------------------------------------------
\* The codec on its own: extract_fields applied to a 32-bit word, then the
\* packing expression applied to the fields it returned
\* ------------------------------------------------------------------------
\* bytes of the words given to the decoder: all bits clear, all bits set,
\* the lowest bit, the highest bit, a mixed pattern
CodecBytes == {0, 1, 128, 165, 255}
\* the words: every 4-byte combination, least and greatest word included
CodecWords == {unpack(b) : b \in [1 .. WordBytes -> CodecBytes]}

\* the caller has a 32-bit word at hand
ChooseWord ==
    /\ pc = "idle"
    /\ phase = "not_started"
    /\ word' \in CodecWords
    /\ pc' = "codec_word"
    /\ UNCHANGED <<fields, repacked, main_vars>>
    /\ UNCHANGED <<err, err_line, instructions>>
    /\ UNCHANGED <<asm_vars, vm_vars>>

\* lines 14-21: the call extract_fields(word)
Decode ==
    /\ pc = "codec_word"
    /\ fields' = extract_fields(word)
    /\ pc' = "codec_fields"
    /\ UNCHANGED <<word, repacked, main_vars>>
    /\ UNCHANGED <<err, err_line, instructions>>
    /\ UNCHANGED <<asm_vars, vm_vars>>

\* line 56: the packing expression on the decoded fields
Repack ==
    /\ pc = "codec_fields"
    /\ repacked' = encode(fields[1], fields[2], fields[3])
    /\ pc' = "codec_repacked"
    /\ UNCHANGED <<word, fields, main_vars>>
    /\ UNCHANGED <<err, err_line, instructions>>
    /\ UNCHANGED <<asm_vars, vm_vars>>

NextCodec == ChooseWord \/ Decode \/ Repack

SpecCodec == Init /\ [][NextCodec]_vars

\* ------------------------------------------------------------------------
\* Properties
\* ------------------------------------------------------------------------
AsmStates == {"asm_parse", "asm_log", "asm_done", "asm_error"}
NonBlank(line) == line # <<>>
\* the fields of the listing line from which the k-th emitted word was made
SourceFields(k) ==
    LET p == ParsedFields(SelectSeq(lines, NonBlank)[k])
    IN  <<p[1].val, p[2].val, p[3].val>>
FieldsInRange(t) ==
    /\ 0 <= t[1] /\ t[1] < 32
    /\ 0 <= t[2] /\ t[2] < 64
    /\ 0 <= t[3] /\ t[3] < 2097152

\* C1: every word the assembler packs from an opcode in [0,32), a register
\* in [0,64) and an operand in [0,2^21) decodes with extract_fields to
\* exactly that opcode, register and operand.
C1_RoundTrip ==
    pc \in AsmStates =>
        \A k \in 1 .. Len(instructions) :
            FieldsInRange(SourceFields(k)) =>
                extract_fields(instructions[k]) = SourceFields(k)

\* the greatest value of every field has been packed
C1_Witness ==
    /\ pc = "asm_done"
    /\ \E k \in 1 .. Len(instructions) : SourceFields(k) = <<31, 63, 2097151>>

\* the instruction the execute loop is about to run
Current == extract_fields(instructions[ip])
AtInstruction == pc = "exec" /\ ip <= Len(instructions)
Executed(k) == extract_fields(instructions[k])

\* C2 (steps): an executed instruction with opcode 6 leaves register[reg] =
\* operand, opcode 8 register[reg] = memory[operand], opcode 25
\* memory[operand] = register[reg] and opcode 10 register[reg] =
\* -memory[operand], the right-hand sides read before the step.
C2_StepSemantics ==
    (AtInstruction /\ ip' = ip + 1) =>
        LET A == Current[1]
            B == Current[2]
            C == Current[3]
        IN  /\ A = 6 => register'[B] = C
            /\ (A = 8 /\ C < MemSize) => register'[B] = memory[C]
            /\ (A = 25 /\ C < MemSize) => memory'[C] = register[B]
            /\ (A = 10 /\ C < MemSize) => register'[B] = -memory[C]

\* C2 (example): after "load constant v into r; write r to address a" the
\* register r and the cell a hold v, and after a following "negate address a
\* into q" the register q holds -v.
C2_LoadWriteNegate ==
    (pc \in {"exec", "done"} /\ ip >= 3
     /\ Executed(1)[1] = 6 /\ Executed(2)[1] = 25
     /\ Executed(2)[2] = Executed(1)[2] /\ Executed(2)[3] < MemSize) =>
        LET r == Executed(1)[2]
            v == Executed(1)[3]
            a == Executed(2)[3]
        IN  /\ ip = 3 => (register[r] = v /\ memory[a] = v)
            /\ (ip = 4 /\ Executed(3)[1] = 10 /\ Executed(3)[3] = a) =>
                    (register[Executed(3)[2]] = -v /\ memory[a] = v)

\* C2: the per-instruction semantics of the executor and the
\* load / write / negate example that follows from it.
C2_InstructionSemantics ==
    [][C2_StepSemantics]_vars /\ []C2_LoadWriteNegate

\* load 2097151 into register 2, write it to address 3, negate address 3
\* into register 2
C2_Witness ==
    /\ pc = "done"
    /\ ip = 4
    /\ Executed(1) = <<6, 2, 2097151>>
    /\ Executed(2) = <<25, 2, 3>>
    /\ Executed(3) = <<10, 2, 3>>
    /\ register[2] = -2097151
    /\ memory[3] = 2097151

\* C3: when an interpreter invocation is about to execute its first
\* instruction, every register and every memory cell is zero, also in a
\* later invocation of the same process.
C3_FreshStateAtStart ==
    (pc = "exec" /\ ip = 1) =>
        (register = ZeroRegisters /\ memory = ZeroMemory)

\* C4: an instruction with opcode 8, 25 or 10 and operand >= 1024 ends the
\* run in an error at that instruction, changing no register and no memory
\* cell; after the error nothing more executes and no result is written; an
\* opcode-6 instruction with operand >= 1024 executes normally.
C4_Step ==
    /\ (AtInstruction /\ Current[1] \in {8, 25, 10} /\ Current[3] >= 1024) =>
            /\ pc' = "error"
            /\ err' = "IndexError"
            /\ register' = register
            /\ memory' = memory
            /\ result' = result
            /\ ip' = ip
            /\ ~result_file'.exists
    /\ (AtInstruction /\ Current[1] = 6 /\ Current[3] >= 1024) =>
            /\ pc' = "exec"
            /\ err' = "none"
            /\ ip' = ip + 1
    /\ pc = "error" =>
            /\ ~result_file.exists
            /\ pc' = "idle"
            /\ memory' = memory
            /\ ~result_file'.exists
C4_AddressSafety == [][C4_Step]_vars

\* a load of an immediate >= 1024 executed, then a read of address 1024
\* ended the run
C4_Witness ==
    /\ pc = "error"
    /\ err = "IndexError"
    /\ ip = 2
    /\ Executed(1) = <<6, 2, 2097151>>
    /\ Executed(2) = <<8, 2, 1024>>
    /\ register[2] = 2097151

\* the register keys of a snapshot
RegistersIn(snapshot) ==
    {n \in 0 .. (NumRegs - 1) : <<"register", n>> \in DOMAIN snapshot}
TouchedBefore(i) == {Executed(k)[2] : k \in 1 .. (i - 1)}

\* C5 (state): during and after the loop the snapshot has a key register_n
\* exactly for the register fields of the executed instructions, each with
\* the current value of register n; the result file of a completed run holds
\* that snapshot.
C5_Snapshot ==
    pc \in {"exec", "done"} =>
        LET touched == TouchedBefore(ip)
        IN  /\ RegistersIn(result) = touched
            /\ \A n \in touched : result[<<"register", n>>] = register[n]
            /\ pc = "done" =>
                /\ ip = Len(instructions) + 1
                /\ result_file.exists
                /\ RegistersIn(result_file.data) = touched
                /\ \A n \in touched :
                        result_file.data[<<"register", n>>] = register[n]

\* C5 (steps): an instruction whose register field is not n changes neither
\* register n nor the value recorded for it, so the recorded value is the
\* one right after the last instruction whose register field is n.
C5_Step ==
    (AtInstruction /\ ip' = ip + 1) =>
        LET B == Current[2]
            recorded == RegistersIn(result)
        IN  \A n \in 0 .. (NumRegs - 1) :
                n # B =>
                    /\ register'[n] = register[n]
                    /\ n \in recorded =>
                            result'[<<"register", n>>] = result[<<"register", n>>]

\* C5: the result snapshot is last-write-wins over the touched registers:
\* in every state the snapshot records exactly the touched registers with
\* their current values, and a step leaves alone what is recorded for the
\* registers it does not touch.
C5_LastWriteWins == []C5_Snapshot /\ [][C5_Step]_vars

\* register 2 was recorded twice with different values and another
\* register once
C5_Witness ==
    /\ pc = "done"
    /\ Len(instructions) = 3
    /\ Executed(1) = <<6, 2, 2097151>>
    /\ Executed(2) = <<8, 0, 3>>
    /\ Executed(3) = <<10, 2, 3>>
    /\ RegistersIn(result_file.data) = {0, 2}
    /\ result_file.data[<<"register", 2>>] # 2097151

\* C6: an instruction whose opcode is none of 6, 8, 10, 25 changes no
\* register and no memory cell, does not fail whatever its operand, and
\* records the unchanged value of its register in the snapshot.
C6_Step ==
    (AtInstruction /\ Current[1] \notin {6, 8, 10, 25}) =>
        /\ register' = register
        /\ memory' = memory
        /\ pc' = "exec"
        /\ err' = "none"
        /\ ip' = ip + 1
        /\ <<"register", Current[2]>> \in DOMAIN result'
        /\ result'[<<"register", Current[2]>>] = register[Current[2]]
C6_UnknownOpcode == [][C6_Step]_vars

\* opcode 31 with operand 1024 executed on a register holding 2097151
C6_Witness ==
    /\ pc = "exec"
    /\ ip = 3
    /\ Executed(1) = <<6, 2, 2097151>>
    /\ Executed(2) = <<31, 2, 1024>>
    /\ result[<<"register", 2>>] = 2097151

\* C7: a call whose range violates 0 <= start_address < 1024 or
\* 0 <= end_address <= 1024 fails with the range error, changing no register
\* and no memory cell, executing nothing and writing no result; a call whose
\* range satisfies both raises no range error.
C7_Step ==
    pc = "idle" =>
        IF (0 <= start_address' /\ start_address' < 1024)
           /\ (0 <= end_address' /\ end_address' <= 1024)
        THEN err' # "ValueError: Addresses must be in range"
        ELSE /\ pc' = "error"
             /\ err' = "ValueError: Addresses must be in range"
             /\ register' = register
             /\ memory' = memory
             /\ ip' = 0
             /\ instructions' = <<>>
             /\ ~result_file'.exists
C7_DumpRange == [][C7_Step]_vars

\* the range [1020, 2000) was rejected in a process whose memory an earlier
\* run had written
C7_Witness ==
    /\ pc = "error"
    /\ err = "ValueError: Addresses must be in range"
    /\ start_address = 1020
    /\ end_address = 2000
    /\ memory # ZeroMemory

\* C8: a call on a binary file whose length is positive and no multiple of 4
\* fails before any instruction executes: no word is decoded, registers are
\* at their initial zero, memory is unchanged and no result is written.
C8_Step ==
    /\ (pc = "idle" /\ binary_input'.exists
        /\ Len(binary_input'.data) > 0 /\ Len(binary_input'.data) % 4 # 0) =>
            /\ pc' = "error"
            /\ err' # "none"
            /\ instructions' = <<>>
            /\ ip' = 0
            /\ register' = ZeroRegisters
            /\ memory' = memory
            /\ result' = <<>>
            /\ ~result_file'.exists
    /\ (pc = "error" /\ binary_input.exists /\ Len(binary_input.data) % 4 # 0) =>
            /\ pc' = "idle"
            /\ memory' = memory
            /\ ~result_file'.exists
C8_Misaligned == [][C8_Step]_vars

\* a 6-byte file with an accepted range was refused by struct.unpack
C8_Witness ==
    /\ pc = "error"
    /\ err = "struct.error"
    /\ Len(binary_input.data) = 6
    /\ start_address = 2
    /\ end_address = 5

\* C9: whenever the assembler or the interpreter ends in an error, none of
\* its output files exists; an output file exists only after a successful
\* operation.
C9_NoPartialResults ==
    /\ pc = "asm_error" => (~binary_file.exists /\ ~log_file.exists)
    /\ pc = "error" => ~result_file.exists
    /\ (binary_file.exists \/ log_file.exists) => pc \in {"asm_log", "asm_done"}
    /\ result_file.exists => pc = "done"

\* a token after its prefix is a hexadecimal numeral: one or more
\* hexadecimal digits
IsHexNumeral(s) ==
    Len(s) > 0 /\ \A i \in 1 .. Len(s) : DigitValue(s[i]) >= 0
Malformed(line) ==
    /\ line # <<>>
    /\ \/ Len(line) < 3
       \/ \E i \in 1 .. 3 : ~IsHexNumeral(StripPrefix(line[i]))
MalformedLines == {n \in 1 .. Len(lines) : Malformed(lines[n])}
FirstMalformed == CHOOSE n \in MalformedLines : \A m \in MalformedLines : n <= m

\* C10: when some non-blank line of the listing has fewer than 3 tokens or a
\* token that is no hexadecimal numeral after its 2-character prefix, the
\* assembler ends in an error citing the number of the first such line and
\* writes neither the binary file nor the log file.
C10_ParseErrorsAbort ==
    (pc \in AsmStates /\ MalformedLines # {}) =>
        /\ ~binary_file.exists
        /\ ~log_file.exists
        /\ line_num < FirstMalformed
        /\ pc \in {"asm_done", "asm_error"} =>
            /\ pc = "asm_error"
            /\ err \in {"ValueError: Invalid instruction format",
                        "ValueError: Invalid hex value"}
            /\ err_line = FirstMalformed

\* the numbers of the non-blank lines of the listing
NonBlankLines == {n \in 1 .. Len(lines) : NonBlank(lines[n])}
\* a listing with no malformed line and every field in range
WellFormedInRange ==
    /\ MalformedLines = {}
    /\ \A k \in 1 .. Len(SelectSeq(lines, NonBlank)) :
            FieldsInRange(SourceFields(k))
\* the k-th 4-byte word of a byte string
WordAt(data, k) == SubSeq(data, 4 * k - 3, 4 * k)
\* a rendering "0x" + 8 hexadecimal digits, most significant first, of the
\* little-endian 4 bytes w
Renders(v, w) ==
    /\ Len(v) = 10
    /\ v[1] = "0" /\ v[2] = "x"
    /\ \A j \in 1 .. 4 :
            /\ DigitValue(v[2 * j + 1]) >= 0
            /\ DigitValue(v[2 * j + 2]) >= 0
            /\ 16 * DigitValue(v[2 * j + 1]) + DigitValue(v[2 * j + 2]) = w[5 - j]

\* C11: on a listing with no malformed line and every field in range the
\* assembler succeeds; the binary file holds exactly one word per non-blank
\* line, in source order, the k-th word decoding to the fields of the k-th
\* non-blank line; the log file has exactly the keys line_<n> of the
\* non-blank lines n (1-based, blank lines counted), each value rendering
\* the word of line n.
C11_OutputShape ==
    (pc \in {"asm_done", "asm_error"} /\ err # "FileNotFoundError"
     /\ WellFormedInRange) =>
        LET src  == SelectSeq(lines, NonBlank)
            data == binary_file.data
        IN  /\ pc = "asm_done"
            /\ binary_file.exists
            /\ Len(data) = 4 * Len(src)
            /\ \A k \in 1 .. Len(src) :
                    extract_fields(unpack(WordAt(data, k))) = SourceFields(k)
            /\ log_file.exists
            /\ DOMAIN log_file.data = {<<"line", n>> : n \in NonBlankLines}
            /\ \A n \in NonBlankLines :
                    LET k == Cardinality({m \in NonBlankLines : m <= n})
                    IN  Renders(log_file.data[<<"line", n>>], WordAt(data, k))

\* a blank line, then line 2 with the greatest value of every field: one
\* word 0xFFFFFFFF, logged under line_2
C11_Witness ==
    /\ pc = "asm_done"
    /\ lines = <<<<>>, <<Tok1F, Tok3F, Tok1FFFFF>>>>
    /\ binary_file.data = <<255, 255, 255, 255>>
    /\ DOMAIN log_file.data = {<<"line", 2>>}
    /\ log_file.data[<<"line", 2>>] = <<"0", "x", "F", "F", "F", "F", "F", "F", "F", "F">>


\* the address a dump key "0x" + 4 hexadecimal digits names, -1 if it is no
\* such key
KeyAddress(k) ==
    IF Len(k) = 6 /\ k[1] = "0" /\ k[2] = "x"
       /\ \A i \in 3 .. 6 : DigitValue(k[i]) >= 0
    THEN DigitsValue(SubSeq(k, 3, 6))
    ELSE -1

\* C12: when a run completes, the memory mapping of the result file has an
\* entry for every address a with start_address <= a < end_address and for
\* no other address, and the entry of a holds memory[a] as the last executed
\* instruction left it.
C12_MemoryDump ==
    pc = "done" =>
        /\ result_file.exists
        /\ <<"memory">> \in DOMAIN result_file.data
        /\ LET dump  == result_file.data[<<"memory">>]
               addrs == {KeyAddress(k) : k \in DOMAIN dump}
           IN  /\ addrs = {a \in 0 .. (MemSize - 1) :
                                start_address <= a /\ a < end_address}
               /\ Cardinality(DOMAIN dump) = Cardinality(addrs)
               /\ \A k \in DOMAIN dump : dump[k] = memory[KeyAddress(k)]

\* the range [2, 5) dumped after address 3 was written: three entries, the
\* one of 0x0003 non-zero
C12_Witness ==
    /\ pc = "done"
    /\ start_address = 2
    /\ end_address = 5
    /\ Len(instructions) = 2
    /\ Executed(1) = <<6, 2, 2097151>>
    /\ Executed(2) = <<25, 2, 3>>
    /\ Cardinality(DOMAIN result_file.data[<<"memory">>]) = 3
    /\ result_file.data[<<"memory">>][<<"0", "x", "0", "0", "0", "3">>] = 2097151


\* C13: every invocation that triggers neither the assembler step nor the
\* interpreter step, also one that gives only some of a step's arguments,
\* has reported the usage error when main returns.
C13_UsageError ==
    (phase = "exit" /\ ~AssembleTriggered(args) /\ ~ExecuteTriggered(args)) =>
        usage


\* C14 (step): a step of an instruction with opcode 25 leaves every register
\* and every memory cell but memory[operand] unchanged; a step of any other
\* instruction, 6, 8 and 10 among them, leaves every memory cell and every
\* register but register[reg] unchanged; so no step changes more than one
\* cell.
C14_Step ==
    AtInstruction =>
        LET A == Current[1]
            B == Current[2]
            C == Current[3]
        IN  IF A = 25
            THEN /\ register' = register
                 /\ memory' = IF C < MemSize
                              THEN [memory EXCEPT ![C] = memory'[C]]
                              ELSE memory
            ELSE /\ memory' = memory
                 /\ register' = [register EXCEPT ![B] = register'[B]]
\* C14: the frame of each instruction of the executor.
C14_Frame == [][C14_Step]_vars

\* a load into register 2 and a write of register 2 to address 3 in a fresh
\* process: exactly that register and that cell are non-zero
C14_Witness ==
    /\ pc = "exec"
    /\ ip = 3
    /\ Executed(1) = <<6, 2, 2097151>>
    /\ Executed(2) = <<25, 2, 3>>
    /\ register = [ZeroRegisters EXCEPT ![2] = 2097151]
    /\ memory = [ZeroMemory EXCEPT ![3] = 2097151]


\* a line with an oversized opcode, register or operand (no field negative)
Oversized(t) ==
    /\ t[1] >= 0 /\ t[2] >= 0 /\ t[3] >= 0
    /\ (t[1] >= 32 \/ t[2] >= 64 \/ t[3] >= 2097152)

\* C15: a word the assembler makes from a line with an opcode >= 32, a
\* register >= 64 or an operand >= 2^21 fits 32 bits and decodes to the
\* given opcode, register and operand truncated to 5, 6 and 21 bits.
C15_EncoderMasks ==
    pc \in AsmStates =>
        \A k \in 1 .. Len(instructions) :
            LET t == SourceFields(k)
            IN  Oversized(t) =>
                    /\ Packable(instructions[k])
                    /\ extract_fields(instructions[k])
                            = <<t[1] % 32, t[2] % 64, t[3] % 2097152>>


\* C16: for every word w in [0, 2^32) extract_fields returns an opcode in
\* [0, 32), a register in [0, 64) and an operand in [0, 2^21), and
\* (operand << 11) | (register << 5) | opcode of what it returned is w.
C16_DecodeTotal ==
    /\ pc \in {"codec_fields", "codec_repacked"} =>
            /\ Packable(word)
            /\ Len(fields) = 3
            /\ FieldsInRange(fields)
    /\ pc = "codec_repacked" => repacked = word

\* the greatest word, 0xFFFFFFFF, decoded to the greatest value of every
\* field and packed again
C16_Witness ==
    /\ pc = "codec_repacked"
    /\ word = unpack(<<255, 255, 255, 255>>)
    /\ fields = <<31, 63, 2097151>>
    /\ pack(repacked) = <<255, 255, 255, 255>>


\* every memory access of the loaded stream is in bounds
AllInBounds ==
    \A k \in 1 .. Len(instructions) :
        LET f == Executed(k)
        IN  f[1] \in {8, 25, 10} => (0 <= f[3] /\ f[3] < MemSize)

\* C17 (steps): during a run the stream does not change and the instruction
\* pointer stays or advances by one; on a stream whose accesses are in
\* bounds every step at a word executes it and advances the pointer by one,
\* and the step past the last word writes the result; the result file is
\* written by that step only.
C17_Step ==
    /\ pc = "exec" =>
            /\ instructions' = instructions
            /\ ip' \in {ip, ip + 1}
            /\ (AllInBounds /\ ip <= Len(instructions)) =>
                    (pc' = "exec" /\ ip' = ip + 1 /\ result_file' = result_file)
            /\ ip > Len(instructions) =>
                    (pc' = "done" /\ ip' = ip /\ result_file'.exists)
    /\ (result_file' # result_file /\ result_file'.exists) =>
            (pc = "exec" /\ ip = Len(instructions) + 1 /\ ~result_file.exists)

\* C17 (terminal state): a completed run has executed exactly N steps, and
\* a run that stopped at a word had a memory access out of bounds
C17_Terminal ==
    /\ pc = "done" => (ip = Len(instructions) + 1 /\ result_file.exists)
    /\ (pc = "error" /\ ip >= 1) => ~AllInBounds

\* C17: a run on a stream of N words whose memory accesses are all in bounds
\* executes the words in order, once each, the pointer advancing by one, and
\* always reaches the terminal state, pointer past the last word, after N
\* steps, where the result is written once.
C17_LinearTermination ==
    /\ [][C17_Step]_vars
    /\ []C17_Terminal
    /\ (pc = "exec") ~> (pc \in {"done", "error"})

\* a stream of three words completed: pointer at 4, result written
C17_Witness ==
    /\ pc = "done"
    /\ Len(instructions) = 3
    /\ AllInBounds
    /\ ip = 4
    /\ result_file.exists
    /\ Executed(3)[1] = 10


\* C18: in every state of the executor, over any number of runs in one
\* process, every register and every memory cell holds an integer v with
\* -2^21 < v < 2^21.
C18_ValueBound ==
    /\ \A n \in 0 .. (NumRegs - 1) :
            -2097152 < register[n] /\ register[n] < 2097152
    /\ \A a \in 0 .. (MemSize - 1) :
            -2097152 < memory[a] /\ memory[a] < 2097152

\* a second run in a process whose memory holds the greatest operand has
\* negated it: both ends of the range are held at once
C18_Witness ==
    /\ pc = "exec"
    /\ ip = 2
    /\ Executed(1) = <<10, 2, 3>>
    /\ memory[3] = 2097151
    /\ register[2] = -2097151


\* the range of the call is inverted or empty, each address within its
\* bounds
InvertedRange ==
    /\ start_address >= end_address
    /\ 0 <= start_address /\ start_address < 1024
    /\ 0 <= end_address /\ end_address <= 1024

\* C19: a call with start_address >= end_address, both within their bounds,
\* is not rejected as a range error; its instructions execute as in any
\* run, and when it completes the memory mapping of the result is empty.
C19_InvertedRange ==
    (pc \in {"exec", "done", "error"} /\ InvertedRange) =>
        /\ err # "ValueError: Addresses must be in range"
        /\ pc = "error" =>
                err \in {"FileNotFoundError", "ValueError: Binary file is empty!",
                         "struct.error", "IndexError"}
        /\ pc = "done" =>
                /\ ip = Len(instructions) + 1
                /\ RegistersIn(result_file.data) = TouchedBefore(ip)
                /\ DOMAIN result_file.data[<<"memory">>] = {}

\* the range [5, 2): the load executed and was recorded, the memory mapping
\* is empty
C19_Witness ==
    /\ pc = "done"
    /\ start_address = 5
    /\ end_address = 2
    /\ Executed(1) = <<6, 2, 2097151>>
    /\ result_file.data[<<"register", 2>>] = 2097151
    /\ result_file.data[<<"memory">>] = <<>>


\* the interpreter call of this invocation has begun
InterpreterStarted == pc \in {"exec", "done", "error"}

\* C20 (states): the interpreter does not start while main is at the
\* assembler step; when an invocation that triggers the assembler has
\* started the interpreter, the binary file and the log file are written in
\* full, one word and one entry per assembled line; after the assembler
\* failed the interpreter has not run.
C20_State ==
    /\ phase = "assemble" => ~InterpreterStarted
    /\ (AssembleTriggered(args) /\ InterpreterStarted) =>
            /\ ExecuteTriggered(args)
            /\ phase \in {"execute", "report", "exit", "crashed"}
            /\ binary_file.exists
            /\ log_file.exists
            /\ Len(binary_file.data) = WordBytes * Cardinality(DOMAIN log_file.data)
    /\ (phase = "crashed" /\ ~log_file.exists /\ AssembleTriggered(args)) =>
            /\ ~InterpreterStarted
            /\ ip = 0
            /\ ~result_file.exists

\* C20 (steps): when the assembler call raised, main is left at once, and
\* nothing happens after main was left by an exception.
C20_Step ==
    /\ (phase = "assemble" /\ pc = "asm_error") => phase' = "crashed"
    /\ phase = "crashed" => FALSE

\* C20: in an invocation that triggers both steps the assembler has written
\* the binary file and the log before the interpreter starts, and when the
\* assembler fails the interpreter never starts.
C20_Ordering == []C20_State /\ [][C20_Step]_vars

\* one invocation assembled "0x19 0x00 0x0A" into prog.bin, then executed
\* prog.bin and wrote the result
C20_Witness ==
    /\ phase = "exit"
    /\ AssembleTriggered(args)
    /\ ExecuteTriggered(args)
    /\ args.binary_input = Some("prog.bin")
    /\ log_file.exists
    /\ binary_input = binary_file
    /\ Len(instructions) = 1
    /\ Executed(1) = <<25, 0, 10>>
    /\ result_file.exists


====
